---------------------------- MODULE Spec2Model ----------------------------
(***************************************************************************)
(* Model of the transfer engine of copeuccino-file-transfer.py             *)
(* (FileTransferApp): the GUI thread with its controls and its queue of    *)
(* deferred root.after callbacks, the worker threads running               *)
(* transfer_files, and the filesystem they act on.                         *)
(*                                                                         *)
(* A path is a Python str, modelled as a sequence of one-character         *)
(* strings, so that startswith, basename, splitext, join and relpath work  *)
(* on the text of the path as the os.path functions do (posixpath).        *)
(* A file's content is a sequence of bytes; one model chunk of ChunkLen    *)
(* bytes stands for the 64 KiB chunk of the source.                        *)
(***************************************************************************)
EXTENDS Integers, Sequences, FiniteSets, TLC

(***************************************************************************)
(* Bounds of the model.                                                    *)
(***************************************************************************)
\* bytes read by one fsrc.read(64 * 1024), scaled down
ChunkLen == 2
\* longest source list the user builds
MaxSources == 2
\* root.after callbacks that may be pending at once
MaxQueue == 2
\* what one behaviour holds beyond a single undisturbed transfer: every
\* further Start, every change the user makes to a control once a transfer
\* has been started, and every fault of the device counts as one extra
MaxExtras == 1

(***************************************************************************)
(* Text of paths: str operations and os.path (posixpath).                  *)
(***************************************************************************)
Sep == "/"
Root == <<"/">>
Empty == <<>>

\* s.startswith(p)
StartsWith(s, p) == Len(p) <= Len(s) /\ SubSeq(s, 1, Len(p)) = p

\* s.rfind(c) + 1: the 1-based index of the last c in s, 0 when absent
RFind(s, c) ==
    LET I == {i \in 1..Len(s) : s[i] = c}
    IN  IF I = {} THEN 0 ELSE CHOOSE i \in I : \A j \in I : j <= i

AllSep(s) == \A i \in 1..Len(s) : s[i] = Sep

RECURSIVE RStripSep(_)
RStripSep(s) ==
    IF Len(s) > 0 /\ s[Len(s)] = Sep THEN RStripSep(SubSeq(s, 1, Len(s) - 1)) ELSE s

\* posixpath.split(p) -> (head, tail)
SplitPath(p) ==
    LET i    == RFind(p, Sep)
        head == SubSeq(p, 1, i)
        tail == SubSeq(p, i + 1, Len(p))
    IN  [head |-> IF head # Empty /\ ~AllSep(head) THEN RStripSep(head) ELSE head,
         tail |-> tail]

\* os.path.basename(p)
Basename(p) == SubSeq(p, RFind(p, Sep) + 1, Len(p))

\* os.path.dirname(p)
Dirname(p) == SplitPath(p).head

\* os.path.join(a, b)
Join(a, b) ==
    IF StartsWith(b, <<Sep>>) THEN b
    ELSE IF a = Empty \/ a[Len(a)] = Sep THEN a \o b
    ELSE a \o <<Sep>> \o b

\* os.path.splitext(p) -> (base, ext): the extension starts at the last dot
\* of the last component, unless that component has only leading dots
Splitext(p) ==
    LET sepIndex == RFind(p, Sep)
        dotIndex == RFind(p, ".")
    IN  IF dotIndex > sepIndex
           /\ \E i \in (sepIndex + 1)..(dotIndex - 1) : p[i] # "."
        THEN [base |-> SubSeq(p, 1, dotIndex - 1), ext |-> SubSeq(p, dotIndex, Len(p))]
        ELSE [base |-> p, ext |-> Empty]

Digit == <<"0", "1", "2", "3", "4", "5", "6", "7", "8", "9">>

\* str(n) of the f-string f"{base}_{counter}{ext}"
RECURSIVE Str(_)
Str(n) == IF n < 10 THEN <<Digit[n + 1]>> ELSE Str(n \div 10) \o <<Digit[(n % 10) + 1]>>

\* f"{base}_{counter}{ext}"
Suffixed(base, counter, ext) == base \o <<"_">> \o Str(counter) \o ext

\* p.split('/') without the empty components
RECURSIVE Components(_)
Components(p) ==
    IF p = Empty THEN <<>>
    ELSE LET I == {i \in 1..Len(p) : p[i] = Sep}
         IN  IF I = {} THEN <<p>>
             ELSE LET i == CHOOSE k \in I : \A j \in I : k <= j
                      rest == Components(SubSeq(p, i + 1, Len(p)))
                  IN  IF i = 1 THEN rest ELSE <<SubSeq(p, 1, i - 1)>> \o rest

Dot == <<".">>
DotDot == <<".", ".">>

\* the components of posixpath.normpath: "." dropped, ".." removes the
\* component before it (and is dropped at the root)
RECURSIVE NormComps(_, _)
NormComps(comps, acc) ==
    IF comps = <<>> THEN acc
    ELSE LET c == Head(comps)
         IN  IF c = Dot THEN NormComps(Tail(comps), acc)
             ELSE IF c = DotDot
                  THEN NormComps(Tail(comps),
                                 IF acc = <<>> THEN acc ELSE SubSeq(acc, 1, Len(acc) - 1))
                  ELSE NormComps(Tail(comps), Append(acc, c))

\* sep.join(comps)
RECURSIVE JoinComps(_)
JoinComps(comps) ==
    IF comps = <<>> THEN Empty
    ELSE IF Len(comps) = 1 THEN comps[1]
    ELSE comps[1] \o <<Sep>> \o JoinComps(Tail(comps))

\* os.path.abspath(p) for the process's working directory "/"
Abspath(p) == Root \o JoinComps(NormComps(Components(p), <<>>))

\* len(os.path.commonprefix([a, b])) on lists of components
RECURSIVE CommonLen(_, _)
CommonLen(a, b) ==
    IF a = <<>> \/ b = <<>> \/ Head(a) # Head(b) THEN 0
    ELSE 1 + CommonLen(Tail(a), Tail(b))

\* os.path.relpath(path, start)
Relpath(path, start) ==
    LET start_list == Components(Abspath(start))
        path_list  == Components(Abspath(path))
        i          == CommonLen(start_list, path_list)
        rel_list   == [k \in 1..(Len(start_list) - i) |-> DotDot]
                          \o SubSeq(path_list, i + 1, Len(path_list))
    IN  IF rel_list = <<>> THEN Dot ELSE JoinComps(rel_list)


(***************************************************************************)
(* The filesystem: fsv.files maps the absolute path of every regular file  *)
(* to its content, fsv.dirs is the set of directories.  The process's      *)
(* working directory is "/".                                               *)
(***************************************************************************)

\* the kernel's path lookup: every component before the last must be a
\* directory; ok is FALSE when the walk fails, path is the absolute path
RECURSIVE LookupFrom(_, _, _)
LookupFrom(comps, cur, fsv) ==
    IF comps = <<>> THEN [ok |-> TRUE, path |-> cur]
    ELSE IF cur \notin fsv.dirs THEN [ok |-> FALSE, path |-> cur]
    ELSE LET c == Head(comps)
         IN  IF c = Dot THEN LookupFrom(Tail(comps), cur, fsv)
             ELSE IF c = DotDot THEN LookupFrom(Tail(comps), Dirname(cur), fsv)
             ELSE LookupFrom(Tail(comps), Join(cur, c), fsv)

Lookup(p, fsv) ==
    IF p = Empty THEN [ok |-> FALSE, path |-> Empty]
    ELSE LookupFrom(Components(p), Root, fsv)

\* os.path.isfile, os.path.isdir, os.path.exists
IsFile(p, fsv) == LET r == Lookup(p, fsv) IN r.ok /\ r.path \in DOMAIN fsv.files
IsDir(p, fsv)  == LET r == Lookup(p, fsv) IN r.ok /\ r.path \in fsv.dirs
Exists(p, fsv) == IsFile(p, fsv) \/ IsDir(p, fsv)

\* the content of the regular file p
Content(p, fsv) == fsv.files[Lookup(p, fsv).path]

\* os.path.getsize(p) of a regular file
GetSize(p, fsv) == Len(Content(p, fsv))

\* os.mkdir(name): fails when name exists or its parent is no directory
Mkdir(name, fsv) ==
    LET r == Lookup(name, fsv)
    IN  IF ~r.ok \/ r.path \in fsv.dirs \/ r.path \in DOMAIN fsv.files
        THEN [ok |-> FALSE, fs |-> fsv]
        ELSE [ok |-> TRUE, fs |-> [fsv EXCEPT !.dirs = @ \cup {r.path}]]

\* os.makedirs(name, exist_ok=True): ok is FALSE when it raises
RECURSIVE Makedirs(_, _)
Makedirs(name, fsv) ==
    LET s0   == SplitPath(name)
        s    == IF s0.tail = Empty THEN SplitPath(s0.head) ELSE s0
        rec  == s.head # Empty /\ s.tail # Empty /\ ~Exists(s.head, fsv)
        pre  == IF rec THEN Makedirs(s.head, fsv) ELSE [ok |-> TRUE, fs |-> fsv]
    IN  IF ~pre.ok THEN pre
        ELSE IF rec /\ s.tail = Dot THEN pre
        ELSE LET m == Mkdir(name, pre.fs)
             IN  IF m.ok THEN m
                 ELSE [ok |-> IsDir(name, pre.fs), fs |-> pre.fs]

\* open(dst, 'wb'): creates the file or truncates it; ok is FALSE when it
\* raises (dst is a directory, or its parent is missing)
OpenWrite(dst, fsv) ==
    LET r == Lookup(dst, fsv)
    IN  IF ~r.ok \/ r.path \in fsv.dirs
        THEN [ok |-> FALSE, path |-> r.path, fs |-> fsv]
        ELSE [ok |-> TRUE, path |-> r.path,
              fs |-> [fsv EXCEPT !.files = (r.path :> <<>>) @@ @]]

\* one fixed order for a directory listing (os.scandir's order is the
\* platform's own)
RECURSIVE Listing(_)
Listing(S) ==
    IF S = {} THEN <<>>
    ELSE LET x == CHOOSE y \in S : TRUE IN <<x>> \o Listing(S \ {x})

\* os.walk(top), flattened to os.path.join(root, filename) for every file:
\* the files of a directory first, then its subdirectories in turn
RECURSIVE WalkFiles(_, _)
WalkFiles(top, fsv) ==
    LET here    == Lookup(top, fsv).path
        kids    == {p \in fsv.dirs \cup DOMAIN fsv.files :
                        p # here /\ Dirname(p) = here}
        fnames  == Listing({Basename(k) : k \in kids \cap DOMAIN fsv.files})
        dnames  == Listing({Basename(k) : k \in kids \cap fsv.dirs})
        sub[n \in 0..Len(dnames)] ==
            IF n = 0 THEN <<>>
            ELSE sub[n - 1] \o WalkFiles(Join(top, dnames[n]), fsv)
    IN  [k \in 1..Len(fnames) |-> Join(top, fnames[k])] \o sub[Len(dnames)]

\* a get_all_files that lists a directory without descending into it
get_all_files_top_level(path, fsv) ==
    IF IsFile(path, fsv) THEN <<path>>
    ELSE IF IsDir(path, fsv)
    THEN LET here == Lookup(path, fsv).path
             names == Listing({Basename(p) : p \in {q \in DOMAIN fsv.files : Dirname(q) = here}})
         IN  [k \in 1..Len(names) |-> Join(path, names[k])]
    ELSE <<>>

\* get_all_files(path)
get_all_files(path, fsv) ==
    IF IsFile(path, fsv) THEN <<path>>
    ELSE IF IsDir(path, fsv) THEN WalkFiles(path, fsv)
    ELSE <<>>

\* calculate_md5(file_path): the digest of the content, None when the file
\* cannot be opened.  MD5 is taken to be free of collisions.
calculate_md5(file_path, fsv) ==
    IF IsFile(file_path, fsv) THEN <<"md5", Content(file_path, fsv)>> ELSE <<"None">>

\* a probe that takes base_1.ext without looking
ProbeName_unprobed(base, ext, counter, fsv) == Suffixed(base, counter, ext)

\* the probe of copy_file_with_progress: the first f"{base}_{counter}{ext}"
\* that does not exist, counting from `counter`
RECURSIVE ProbeName(_, _, _, _)
ProbeName(base, ext, counter, fsv) ==
    IF Exists(Suffixed(base, counter, ext), fsv)
    THEN ProbeName(base, ext, counter + 1, fsv)
    ELSE Suffixed(base, counter, ext)

(***************************************************************************)
(* The machine the application runs on: the tree at start, and what the   *)
(* file and folder pickers and the destination entry can return.           *)
(***************************************************************************)
pO   == <<"/", "o">>
pOx  == <<"/", "o", "/", "x", ".", "t">>
pD   == <<"/", "d">>
pD2  == <<"/", "d", "2">>
pD2k == <<"/", "d", "2", "/", "k">>
pD2x == <<"/", "d", "2", "/", "k", "/", "x", ".", "t">>
pQ   == <<"/", "q">>
pN   == <<"/", "n">>

\* /o/x.t (1 byte), /d (a file of 0 bytes), /d2/k/x.t (3 bytes)
InitFS ==
    [files |-> (pOx :> <<7>>) @@ (pD :> <<>>) @@ (pD2x :> <<1, 2, 3>>),
     dirs  |-> {Root, pO, pD2, pD2k}]

\* filedialog.askopenfilenames
FileChoices == {pD, pOx}
\* filedialog.askdirectory (the typed name need not exist: /q does not)
FolderChoices == {pD2, pQ}
\* the destination entry, a drive, or the folder picker (/n does not exist)
DestChoices == {Empty, pO, pN}


(***************************************************************************)
(* State.  The first block is FileTransferApp's own state and widgets,    *)
(* the second the run-time around it.                                      *)
(*   afterq   the callbacks handed to root.after(0, ...) and not yet run   *)
(*   dialog   the message box that is open, "none" when there is none      *)
(*   worker   the locals and the position of every transfer_files thread   *)
(*   started  how many threads start_transfer has started                  *)
(*   extras   the extras (see MaxExtras) this behaviour has used            *)
(* worker[t].snap (the controls as start_transfer saw them),               *)
(* worker[t].origin (for every entry of all_files, the entry of            *)
(* source_files whose enumeration produced it) and worker[t].observed (the *)
(* thread has read cancel_transfer as True) are history fields: the        *)
(* program does not read them.  worker[t].exc is the exception that is     *)
(* propagating, the `e` of line 546.                                       *)
(***************************************************************************)
VARIABLES source_files, destination_path,
          verify_checksum, preserve_structure, overwrite_existing,
          transfer_active, cancel_transfer,
          transfer_btn, cancel_btn, status_label,
          afterq, dialog, fs, worker, started, extras

vars == <<source_files, destination_path,
          verify_checksum, preserve_structure, overwrite_existing,
          transfer_active, cancel_transfer,
          transfer_btn, cancel_btn, status_label,
          afterq, dialog, fs, worker, started, extras>>

controls == <<source_files, destination_path,
              verify_checksum, preserve_structure, overwrite_existing>>
flags    == <<transfer_active, cancel_transfer>>
buttons  == <<transfer_btn, cancel_btn>>

Threads == 1..(MaxExtras + 1)

NoSnap == [sources |-> <<>>, dest |-> Empty,
           verify |-> FALSE, preserve |-> FALSE, overwrite |-> FALSE]

\* a thread that has not been started
NoWorker ==
    [pc |-> "none", it |-> 0, all_files |-> <<>>, origin |-> <<>>, exc |-> "none",
     total_files |-> 0, total_size |-> 0,
     transferred_files |-> 0, transferred_size |-> 0,
     idx |-> 0, dest_file |-> Empty, file_size |-> 0,
     dst |-> Empty, copied |-> 0,
     observed |-> FALSE, late |-> 0, snap |-> NoSnap]

Running(t) == worker[t].pc \notin {"none", "exited"}
AnyRunning == \E t \in Threads : Running(t)

\* FileTransferApp.__init__ and setup_ui
Init ==
    /\ source_files = <<>>
    /\ destination_path = Empty
    /\ verify_checksum = TRUE
    /\ preserve_structure = TRUE
    /\ overwrite_existing = FALSE
    /\ transfer_active = FALSE
    /\ cancel_transfer = FALSE
    /\ transfer_btn = "normal"
    /\ cancel_btn = "disabled"
    /\ status_label = "ready"
    /\ afterq = <<>>
    /\ dialog = "none"
    /\ fs = InitFS
    /\ worker = [t \in Threads |-> NoWorker]
    /\ started = 0
    /\ extras = 0

(***************************************************************************)
(* The GUI thread: the user's actions on the main window.  A message box   *)
(* is modal, so the window takes no input while one is open.  No control   *)
(* is disabled during a transfer except the Start button.                  *)
(***************************************************************************)

\* the user changes a control: freely before the first transfer, a bounded
\* number of times from then on
UserEdit ==
    /\ dialog = "none"
    /\ started > 0 => extras < MaxExtras
    /\ extras' = IF started > 0 THEN extras + 1 ELSE extras

InList(x, seq) == \E k \in 1..Len(seq) : seq[k] = x

\* add_files, for one file picked
add_files(file_path) ==
    /\ UserEdit
    /\ Len(source_files) < MaxSources
    /\ ~InList(file_path, source_files)
    /\ source_files' = Append(source_files, file_path)
    /\ UNCHANGED <<destination_path, verify_checksum, preserve_structure,
                   overwrite_existing, flags, buttons, status_label,
                   afterq, dialog, fs, worker, started>>

\* add_folder
add_folder(folder_path) ==
    /\ UserEdit
    /\ Len(source_files) < MaxSources
    /\ folder_path # Empty /\ ~InList(folder_path, source_files)
    /\ source_files' = Append(source_files, folder_path)
    /\ UNCHANGED <<destination_path, verify_checksum, preserve_structure,
                   overwrite_existing, flags, buttons, status_label,
                   afterq, dialog, fs, worker, started>>

\* the list without the entries at the indices in sel
RECURSIVE Without(_, _, _)
Without(seq, sel, k) ==
    IF k > Len(seq) THEN <<>>
    ELSE (IF k \in sel THEN <<>> ELSE <<seq[k]>>) \o Without(seq, sel, k + 1)

\* remove_selected, for the selection sel of the listbox
remove_selected(selected_indices) ==
    /\ UserEdit
    /\ selected_indices # {}
    /\ source_files' = Without(source_files, selected_indices, 1)
    /\ UNCHANGED <<destination_path, verify_checksum, preserve_structure,
                   overwrite_existing, flags, buttons, status_label,
                   afterq, dialog, fs, worker, started>>

\* clear_all
clear_all ==
    /\ UserEdit
    /\ source_files # <<>>
    /\ source_files' = <<>>
    /\ UNCHANGED <<destination_path, verify_checksum, preserve_structure,
                   overwrite_existing, flags, buttons, status_label,
                   afterq, dialog, fs, worker, started>>

\* browse_destination, on_drive_select, or typing into dest_entry
browse_destination(folder_path) ==
    /\ UserEdit
    /\ folder_path # destination_path
    /\ destination_path' = folder_path
    /\ UNCHANGED <<source_files, verify_checksum, preserve_structure,
                   overwrite_existing, flags, buttons, status_label,
                   afterq, dialog, fs, worker, started>>

\* a click on one of the three Checkbuttons
toggle_verify ==
    /\ UserEdit
    /\ verify_checksum' = ~verify_checksum
    /\ UNCHANGED <<source_files, destination_path, preserve_structure,
                   overwrite_existing, flags, buttons, status_label,
                   afterq, dialog, fs, worker, started>>

toggle_preserve ==
    /\ UserEdit
    /\ preserve_structure' = ~preserve_structure
    /\ UNCHANGED <<source_files, destination_path, verify_checksum,
                   overwrite_existing, flags, buttons, status_label,
                   afterq, dialog, fs, worker, started>>

toggle_overwrite ==
    /\ UserEdit
    /\ overwrite_existing' = ~overwrite_existing
    /\ UNCHANGED <<source_files, destination_path, verify_checksum,
                   preserve_structure, flags, buttons, status_label,
                   afterq, dialog, fs, worker, started>>

\* what start_transfer does once the request has passed its three checks
StartAccepted ==
    /\ started > 0 => extras < MaxExtras
    /\ extras' = IF started > 0 THEN extras + 1 ELSE extras
    /\ transfer_active' = TRUE
    /\ cancel_transfer' = FALSE
    /\ transfer_btn' = "disabled"
    /\ cancel_btn' = "normal"
    /\ started' = started + 1
    /\ worker' = [worker EXCEPT ![started + 1] =
                    [NoWorker EXCEPT
                       !.pc = "enum",
                       !.snap = [sources |-> source_files,
                                 dest |-> destination_path,
                                 verify |-> verify_checksum,
                                 preserve |-> preserve_structure,
                                 overwrite |-> overwrite_existing]]]
    /\ UNCHANGED <<dialog>>

\* a start_transfer that sets its flags before it checks the request
StartRejected_flags_first(box) ==
    /\ dialog' = box
    /\ transfer_active' = TRUE
    /\ cancel_transfer' = FALSE
    /\ UNCHANGED <<buttons, worker, started, extras>>

\* what start_transfer does with a request it rejects: a message box
StartRejected(box) ==
    /\ dialog' = box
    /\ UNCHANGED <<flags, buttons, worker, started, extras>>

\* start_transfer, the command of the Start button
start_transfer ==
    /\ dialog = "none"
    /\ transfer_btn = "normal"
    /\ IF source_files = <<>> THEN StartRejected("warn_no_files")
       ELSE IF destination_path = Empty THEN StartRejected("warn_no_destination")
       ELSE IF ~Exists(destination_path, fs) THEN StartRejected("error_no_path")
       ELSE StartAccepted
    /\ UNCHANGED <<controls, status_label, afterq, fs>>

\* cancel_transfer_action, the command of the Cancel button
cancel_transfer_action ==
    /\ dialog = "none"
    /\ cancel_btn = "normal"
    /\ cancel_transfer' = TRUE
    /\ status_label' = "cancelling"
    /\ UNCHANGED <<controls, transfer_active, buttons, afterq, dialog, fs,
                   worker, started, extras>>

\* the user closes the open message box
close_dialog ==
    /\ dialog # "none"
    /\ dialog' = "none"
    /\ UNCHANGED <<controls, flags, buttons, status_label, afterq, fs,
                   worker, started, extras>>

\* the event loop runs the oldest root.after callback
run_after ==
    /\ afterq # <<>>
    /\ LET cb == Head(afterq) IN
         /\ cb \in {"dlg_success", "dlg_error"} => dialog = "none"
         /\ status_label' =
              IF cb \in {"transferring", "copying", "cancelled", "complete", "error"}
              THEN cb ELSE status_label
         /\ dialog' = IF cb \in {"dlg_success", "dlg_error"} THEN cb ELSE dialog
         /\ transfer_btn' = IF cb = "start_normal" THEN "normal" ELSE transfer_btn
         /\ cancel_btn' = IF cb = "cancel_disabled" THEN "disabled" ELSE cancel_btn
    /\ afterq' = Tail(afterq)
    /\ UNCHANGED <<controls, flags, fs, worker, started, extras>>


(***************************************************************************)
(* The worker: transfer_files, one step per stretch of code between two    *)
(* reads of state that the GUI thread writes.  A root.after call appends   *)
(* to afterq; a thread waits while the queue is full.                      *)
(***************************************************************************)
Push(items) ==
    /\ Len(afterq) + Len(items) <= MaxQueue
    /\ afterq' = afterq \o items

\* sum(os.path.getsize(f) for f in all_files if os.path.isfile(f))
RECURSIVE SumSizes(_, _)
SumSizes(files, fsv) ==
    IF files = <<>> THEN 0
    ELSE (IF IsFile(Head(files), fsv) THEN GetSize(Head(files), fsv) ELSE 0)
         + SumSizes(Tail(files), fsv)

\* the destination path of file_path, lines 488-512
dest_file_for(file_path, preserve, sources, dest, fsv) ==
    IF preserve
    THEN LET hits == {k \in 1..Len(sources) : StartsWith(file_path, sources[k])}
         IN  IF hits # {}
             THEN LET source_root == sources[CHOOSE k \in hits : \A j \in hits : k <= j]
                      rel_path ==
                          IF IsFile(source_root, fsv)
                          THEN Basename(file_path)
                          ELSE Join(Basename(source_root),
                                    Relpath(file_path, source_root))
                  IN  Join(dest, rel_path)
             ELSE Join(dest, Basename(file_path))
    ELSE Join(dest, Basename(file_path))

\* the path copy_file_with_progress writes to, lines 392-398
write_path(dst, overwrite, fsv) ==
    IF Exists(dst, fsv) /\ ~overwrite
    THEN LET se == Splitext(dst) IN ProbeName(se.base, se.ext, 1, fsv)
    ELSE dst

\* back at the head of the per-file loop, with the next file
NextFile(w) ==
    [w EXCEPT !.pc = "loop", !.idx = @ + 1, !.dest_file = Empty,
              !.file_size = 0, !.dst = Empty, !.copied = 0]

\* an exception leaves the try block for the handler at line 546
Raised(w, e) ==
    [w EXCEPT !.pc = "except", !.exc = e, !.dest_file = Empty,
              !.file_size = 0, !.dst = Empty, !.copied = 0]

\* a per-file loop that never looks at the flag
loop_cancelled_unchecked == FALSE

\* `if self.cancel_transfer` at the head of the per-file loop, line 485
loop_cancelled == cancel_transfer

\* a chunk loop that never looks at the flag
chunk_cancelled_unchecked == FALSE

\* `if self.cancel_transfer` at the head of the chunk loop, line 406
chunk_cancelled == cancel_transfer

\* one iteration of the loop of lines 472-473 over the live self.source_files
enumerate_entry(t) ==
    LET w == worker[t] IN
    /\ w.pc = "enum"
    /\ w.it < Len(source_files)
    /\ worker' = [worker EXCEPT ![t] =
                    LET found == get_all_files(source_files[w.it + 1], fs) IN
                    [w EXCEPT !.it = @ + 1,
                              !.all_files = @ \o found,
                              !.origin = @ \o [k \in 1..Len(found) |->
                                                  source_files[w.it + 1]]]]
    /\ UNCHANGED <<controls, flags, buttons, status_label, afterq, dialog, fs,
                   started, extras>>

\* the end of that loop and lines 475-482
enumerate_done(t) ==
    LET w == worker[t] IN
    /\ w.pc = "enum"
    /\ w.it >= Len(source_files)
    /\ Push(<<"transferring">>)
    /\ worker' = [worker EXCEPT ![t] =
                    [w EXCEPT !.pc = "loop", !.it = 0,
                              !.total_files = Len(w.all_files),
                              !.total_size = SumSizes(w.all_files, fs)]]
    /\ UNCHANGED <<controls, flags, buttons, status_label, dialog, fs,
                   started, extras>>

\* the head of the per-file loop, lines 484-519: the cancellation check,
\* the destination path, the status update, the size of the file
next_file(t) ==
    LET w == worker[t] IN
    /\ w.pc = "loop"
    /\ IF w.idx >= Len(w.all_files)
       THEN /\ worker' = [worker EXCEPT ![t] = [w EXCEPT !.pc = "epilogue"]]
            /\ UNCHANGED afterq
       ELSE IF loop_cancelled
       THEN /\ worker' = [worker EXCEPT ![t] =
                            [w EXCEPT !.pc = "epilogue", !.observed = TRUE]]
            /\ UNCHANGED afterq
       ELSE LET file_path == w.all_files[w.idx + 1] IN
            /\ Push(<<"copying">>)
            /\ worker' = [worker EXCEPT ![t] =
                 IF IsFile(file_path, fs)
                 THEN [w EXCEPT !.pc = "copy",
                                !.dest_file = dest_file_for(file_path, preserve_structure,
                                                  source_files, destination_path, fs),
                                !.file_size = GetSize(file_path, fs)]
                 ELSE Raised(w, "OSError")]
    /\ UNCHANGED <<controls, flags, buttons, status_label, dialog, fs,
                   started, extras>>

\* copy_file_with_progress up to the two open() calls, lines 388-404
copy_open(t) ==
    LET w    == worker[t]
        src  == w.all_files[w.idx + 1]
        made == Makedirs(Dirname(w.dest_file), fs)
        dst  == write_path(w.dest_file, overwrite_existing, made.fs)
        op   == OpenWrite(dst, made.fs)
    IN
    /\ w.pc = "copy"
    /\ IF ~made.ok
       THEN /\ worker' = [worker EXCEPT ![t] = Raised(w, "OSError")]
            /\ fs' = made.fs
       ELSE IF ~op.ok
       THEN /\ worker' = [worker EXCEPT ![t] = Raised(w, "OSError")]
            /\ fs' = made.fs
       ELSE /\ worker' = [worker EXCEPT ![t] = [w EXCEPT !.pc = "chunk", !.dst = op.path]]
            /\ fs' = op.fs
    /\ UNCHANGED <<controls, flags, buttons, status_label, afterq, dialog,
                   started, extras>>

\* the bytes a failing device stores in place of chunk
Corrupted(chunk) == [k \in 1..Len(chunk) |-> 0]

\* fsrc.read(64 * 1024) at offset copied
read_chunk(src, copied, fsv) ==
    LET data == Content(src, fsv)
        last == IF copied + ChunkLen <= Len(data) THEN copied + ChunkLen ELSE Len(data)
    IN  SubSeq(data, copied + 1, last)

\* the head of a round of the chunk loop, lines 405-407: the read of the
\* flag.  The GUI thread can set the flag between this read and the write.
chunk_check(t) ==
    LET w == worker[t] IN
    /\ w.pc = "chunk"
    /\ worker' = [worker EXCEPT ![t] =
                    IF chunk_cancelled
                    THEN [NextFile(w) EXCEPT !.observed = TRUE]
                    ELSE [w EXCEPT !.pc = "write"]]
    /\ UNCHANGED <<controls, flags, buttons, status_label, afterq, dialog, fs,
                   started, extras>>

\* the rest of the round, lines 409-417, with the progress_callback of
\* lines 521-524; fault is what the device does in this round.  late counts
\* the chunks this run wrote while the flag was set.
copy_chunk(t, fault) ==
    LET w     == worker[t]
        src   == w.all_files[w.idx + 1]
        chunk == read_chunk(src, w.copied, fs)
    IN
    /\ w.pc = "write"
    /\ fault # "none" => extras < MaxExtras /\ chunk # <<>>
    /\ extras' = IF fault = "none" THEN extras ELSE extras + 1
    /\ IF fault = "io_error"
       THEN /\ worker' = [worker EXCEPT ![t] = Raised(w, "ChunkIOError")]
            /\ UNCHANGED fs
       ELSE IF chunk = <<>>
       THEN /\ worker' = [worker EXCEPT ![t] = [w EXCEPT !.pc = "verify"]]
            /\ UNCHANGED fs
       ELSE /\ fs' = [fs EXCEPT !.files[w.dst] =
                        @ \o (IF fault = "corrupt" THEN Corrupted(chunk) ELSE chunk)]
            /\ worker' = [worker EXCEPT ![t] =
                            LET v == [w EXCEPT !.late = @ + (IF cancel_transfer THEN 1 ELSE 0)]
                            IN  IF w.total_size = 0
                                THEN Raised(v, "ZeroDivisionError")
                                ELSE [v EXCEPT !.pc = "chunk", !.copied = @ + Len(chunk)]]
    /\ UNCHANGED <<controls, flags, buttons, status_label, afterq, dialog,
                   started>>

\* the end of copy_file_with_progress and the rest of the loop body,
\* lines 419-427 and 528-534
verify_and_count(t) ==
    LET w   == worker[t]
        src == w.all_files[w.idx + 1]
    IN
    /\ w.pc = "verify"
    /\ worker' = [worker EXCEPT ![t] =
         IF verify_checksum /\ calculate_md5(src, fs) # calculate_md5(w.dst, fs)
         THEN Raised(w, "ChecksumFailed")
         ELSE IF w.total_size = 0
         THEN [Raised(w, "ZeroDivisionError") EXCEPT !.transferred_files = @ + 1,
                                !.transferred_size = @ + w.file_size]
         ELSE [NextFile(w) EXCEPT !.transferred_files = @ + 1,
                                  !.transferred_size = @ + w.file_size]]
    /\ UNCHANGED <<controls, flags, buttons, status_label, afterq, dialog, fs,
                   started, extras>>

\* after the loop, lines 536-544
epilogue(t) ==
    LET w == worker[t] IN
    /\ w.pc = "epilogue"
    /\ IF cancel_transfer
       THEN Push(<<"cancelled">>)
       ELSE Push(<<"complete", "dlg_success">>)
    /\ worker' = [worker EXCEPT ![t] = [NoWorker EXCEPT !.pc = "finally"]]
    /\ UNCHANGED <<controls, flags, buttons, status_label, dialog, fs,
                   started, extras>>

\* a handler after which the thread ends, the cleanup of lines 551-553
\* being skipped on this path
except_handler_no_finally(t) ==
    LET w == worker[t] IN
    /\ w.pc = "except"
    /\ Push(<<"error", "dlg_error">>)
    /\ worker' = [worker EXCEPT ![t] = [NoWorker EXCEPT !.pc = "exited"]]
    /\ UNCHANGED <<controls, flags, buttons, status_label, dialog, fs,
                   started, extras>>

\* the handler of lines 546-548
except_handler(t) ==
    LET w == worker[t] IN
    /\ w.pc = "except"
    /\ Push(<<"error", "dlg_error">>)
    /\ worker' = [worker EXCEPT ![t] = [NoWorker EXCEPT !.pc = "finally"]]
    /\ UNCHANGED <<controls, flags, buttons, status_label, dialog, fs,
                   started, extras>>

\* lines 551-552 (the locals of the thread are dead from here on)
finally_start_btn(t) ==
    LET w == worker[t] IN
    /\ w.pc = "finally"
    /\ transfer_active' = FALSE
    /\ Push(<<"start_normal">>)
    /\ worker' = [worker EXCEPT ![t] = [NoWorker EXCEPT !.pc = "finally_2"]]
    /\ UNCHANGED <<controls, cancel_transfer, buttons, status_label, dialog, fs,
                   started, extras>>

\* line 553, after which the thread ends
finally_cancel_btn(t) ==
    LET w == worker[t] IN
    /\ w.pc = "finally_2"
    /\ Push(<<"cancel_disabled">>)
    /\ worker' = [worker EXCEPT ![t] = [NoWorker EXCEPT !.pc = "exited"]]
    /\ UNCHANGED <<controls, flags, buttons, status_label, dialog, fs,
                   started, extras>>

Faults == {"none", "io_error", "corrupt"}

Next ==
    \/ \E f \in FileChoices : add_files(f)
    \/ \E d \in FolderChoices : add_folder(d)
    \/ \E sel \in SUBSET (1..Len(source_files)) : remove_selected(sel)
    \/ clear_all
    \/ \E d \in DestChoices : browse_destination(d)
    \/ toggle_verify
    \/ toggle_preserve
    \/ toggle_overwrite
    \/ start_transfer
    \/ cancel_transfer_action
    \/ close_dialog
    \/ run_after
    \/ \E t \in Threads : enumerate_entry(t)
    \/ \E t \in Threads : enumerate_done(t)
    \/ \E t \in Threads : next_file(t)
    \/ \E t \in Threads : copy_open(t)
    \/ \E t \in Threads : chunk_check(t)
    \/ \E t \in Threads, fault \in Faults : copy_chunk(t, fault)
    \/ \E t \in Threads : verify_and_count(t)
    \/ \E t \in Threads : epilogue(t)
    \/ \E t \in Threads : except_handler(t)
    \/ \E t \in Threads : finally_start_btn(t)
    \/ \E t \in Threads : finally_cancel_btn(t)

Spec == Init /\ [][Next]_vars

\* the steps of the thread started at line 463-465
WorkerStep(t) ==
    \/ enumerate_entry(t)
    \/ enumerate_done(t)
    \/ next_file(t)
    \/ copy_open(t)
    \/ chunk_check(t)
    \/ \E fault \in Faults : copy_chunk(t, fault)
    \/ verify_and_count(t)
    \/ epilogue(t)
    \/ except_handler(t)
    \/ finally_start_btn(t)
    \/ finally_cancel_btn(t)

\* the lists add_files and add_folder can have built: no entry twice
SourceLists ==
    {l \in UNION {[1..n -> FileChoices \cup FolderChoices] : n \in 1..MaxSources} :
        \A i, j \in 1..Len(l) : i # j => l[i] # l[j]}

\* the application after the user has filled in the form: Init but for the
\* source list, the destination and the three options
ReadyInit ==
    /\ source_files \in SourceLists
    /\ destination_path = pO
    /\ verify_checksum \in BOOLEAN
    /\ preserve_structure \in BOOLEAN
    /\ overwrite_existing \in BOOLEAN
    /\ transfer_active = FALSE
    /\ cancel_transfer = FALSE
    /\ transfer_btn = "normal"
    /\ cancel_btn = "disabled"
    /\ status_label = "ready"
    /\ afterq = <<>>
    /\ dialog = "none"
    /\ fs = InitFS
    /\ worker = [t \in Threads |-> NoWorker]
    /\ started = 0
    /\ extras = 0

\* the user starts and cancels runs and closes message boxes, and leaves
\* the form as it is
RunNext ==
    \/ start_transfer
    \/ cancel_transfer_action
    \/ close_dialog
    \/ run_after
    \/ \E t \in Threads : WorkerStep(t)

\* ENABLED <<WorkerStep(t)>>_vars written out: a started thread can take
\* its next step unless that step is a root.after call and the queue of
\* the model is full (every step of a thread changes worker[t])
WorkerEnabled(t) ==
    LET w    == worker[t]
        room == MaxQueue - Len(afterq)
    IN  CASE w.pc = "enum"      -> w.it < Len(source_files) \/ room >= 1
          [] w.pc = "loop"      -> w.idx >= Len(w.all_files) \/ loop_cancelled \/ room >= 1
          [] w.pc = "epilogue"  -> room >= (IF cancel_transfer THEN 1 ELSE 2)
          [] w.pc = "except"    -> room >= 2
          [] w.pc \in {"finally", "finally_2"} -> room >= 1
          [] w.pc \in {"none", "exited"} -> FALSE
          [] OTHER -> TRUE

\* WF_vars(WorkerStep(t)), with ENABLED written out as WorkerEnabled(t)
WorkerFair(t) ==
    \/ []<>(~WorkerEnabled(t))
    \/ []<><<WorkerStep(t)>>_vars

\* The operating system keeps scheduling every started thread, and the Tk
\* main loop (root.mainloop, line 584) keeps running the callbacks that
\* root.after has queued.  Nothing is assumed about the user.
FairSpec ==
    /\ ReadyInit
    /\ [][RunNext]_vars
    /\ \A t \in Threads : WorkerFair(t)
    /\ WF_vars(run_after)


(***************************************************************************)
(* The claims.                                                             *)
(***************************************************************************)

\* the tree at the moment copy_file_with_progress opens its destination in
\* the step from fs to fs': the directories makedirs has made, the files
\* as they were before the open
TreeAtOpen == [files |-> fs.files, dirs |-> fs'.dirs]

\* thread t takes the step of copy_file_with_progress that opens a
\* destination file for writing
OpensDestination(t) == worker[t].pc = "copy" /\ worker'[t].pc = "chunk"

\* C1: once a worker has read cancel_transfer as True, every further step
\* it takes leaves the filesystem alone and leads out of the per-file loop:
\* it begins no copy and opens no destination file for a later entry of
\* all_files.
C1_NoCopyAfterCancelObserved ==
    [][\A t \in Threads :
          (worker[t].observed /\ worker'[t] # worker[t])
              => /\ worker'[t].pc \in {"epilogue", "finally"}
                 /\ ~OpensDestination(t)
                 /\ fs' = fs]_vars

\* C1 witness: a worker saw the flag inside the chunk loop and is back at
\* the head of the per-file loop with an entry of all_files left
C1_Witness ==
    \E t \in Threads :
        /\ worker[t].observed
        /\ worker[t].pc = "loop"
        /\ worker[t].idx < Len(worker[t].all_files)

\* C2: in every state of a run the bytes counted as transferred, and the
\* value transferred_size + copied the progress callback uses, are at most
\* total_size.  Stated for the first run of a behaviour in which the user
\* leaves the controls alone and the device does not fail (extras = 0).
C2_TransferredWithinTotal ==
    \A t \in Threads :
        (extras = 0 /\ worker[t].pc \in {"loop", "copy", "chunk", "write", "verify", "epilogue", "except"})
            => /\ worker[t].transferred_size <= worker[t].total_size
               /\ worker[t].transferred_size + worker[t].copied <= worker[t].total_size

\* thread t's destination in the step is the first free base_N.ext
FirstFreeSuffix(t) ==
    LET se == Splitext(worker[t].dest_file)
        F  == TreeAtOpen
    IN  \E N \in 1..(Cardinality(DOMAIN fs.files) + 1) :
            /\ worker'[t].dst = Lookup(Suffixed(se.base, N, se.ext), F).path
            /\ ~Exists(Suffixed(se.base, N, se.ext), F)
            /\ \A m \in 1..(N - 1) : Exists(Suffixed(se.base, m, se.ext), F)

\* C3: with overwrite_existing false, the path a copy opens for writing
\* does not exist at that moment: it is the resolved destination when that
\* is free, else base_N.ext for the smallest N >= 1 that is free, and every
\* file keeps its content; with overwrite_existing true the copy opens the
\* resolved destination itself.  The only other change to a file's content
\* is a chunk appended to the file a copy has opened.
C3_NoOverwriteWithoutOption ==
    [][/\ \A t \in Threads :
            OpensDestination(t) =>
                IF overwrite_existing
                THEN worker'[t].dst = Lookup(worker[t].dest_file, TreeAtOpen).path
                ELSE /\ worker'[t].dst \notin DOMAIN fs.files
                     /\ worker'[t].dst \notin fs'.dirs
                     /\ IF Exists(worker[t].dest_file, TreeAtOpen)
                        THEN FirstFreeSuffix(t)
                        ELSE worker'[t].dst = Lookup(worker[t].dest_file, TreeAtOpen).path
                     /\ \A p \in DOMAIN fs.files : fs'.files[p] = fs.files[p]
       /\ \A p \in DOMAIN fs.files :
            \/ p \in DOMAIN fs'.files /\ fs'.files[p] = fs.files[p]
            \/ \E t \in Threads :
                 /\ worker[t].pc = "write" /\ worker[t].dst = p
                 /\ StartsWith(fs'.files[p], fs.files[p])
            \/ \E t \in Threads :
                 OpensDestination(t) /\ overwrite_existing /\ worker'[t].dst = p]_vars

\* C3 witness: a copy has opened /o/x_2.t, because /o/x.t and /o/x_1.t
\* were there and overwrite_existing is off
C3_Witness ==
    \E t \in Threads :
        /\ worker[t].pc = "chunk"
        /\ ~overwrite_existing
        /\ worker[t].dst = <<"/", "o", "/", "x", "_", "2", ".", "t">>
        /\ <<"/", "o", "/", "x", "_", "1", ".", "t">> \in DOMAIN fs.files


\* C4: a read or write failure in the chunk loop ends the copy of that
\* file only; the run does not unwind while entries of all_files are left.
C4_IOErrorKeepsRunGoing ==
    \A t \in Threads :
        ~(/\ worker[t].pc = "except"
          /\ worker[t].exc = "ChunkIOError"
          /\ worker[t].idx + 1 < Len(worker[t].all_files))

\* C5: a checksum mismatch is an error of that file only; the run does not
\* unwind while entries of all_files are left.
C5_MismatchKeepsRunGoing ==
    \A t \in Threads :
        ~(/\ worker[t].pc = "except"
          /\ worker[t].exc = "ChecksumFailed"
          /\ worker[t].idx + 1 < Len(worker[t].all_files))

\* the destination the originating entry gives file_path with
\* preserve_structure on
DestinationFromOrigin(file_path, entry, dest, fsv) ==
    IF IsFile(entry, fsv)
    THEN Join(dest, Basename(file_path))
    ELSE Join(dest, Join(Basename(entry), Relpath(file_path, entry)))

\* C6: with preserve_structure on, the destination of the file being copied
\* is computed from the entry of source_files that produced it.  Stated for
\* the first run of a behaviour in which the user leaves the controls alone
\* (extras = 0).
C6_DestinationFromOriginatingEntry ==
    \A t \in Threads :
        (extras = 0 /\ worker[t].pc = "copy" /\ preserve_structure)
            => worker[t].dest_file =
                   DestinationFromOrigin(worker[t].all_files[worker[t].idx + 1],
                                         worker[t].origin[worker[t].idx + 1],
                                         destination_path, fs)

\* the request start_transfer must reject
BadRequest ==
    \/ source_files = <<>>
    \/ destination_path = Empty
    \/ ~Exists(destination_path, fs)

\* C7: start_transfer on a bad request starts no thread and leaves
\* transfer_active, cancel_transfer and both buttons as they are; no step
\* at all starts a thread while the request is bad.
C7_BadRequestRejected ==
    [][BadRequest =>
          /\ started' = started
          /\ \A t \in Threads : ~Running(t) => worker'[t] = worker[t]
          /\ start_transfer =>
                /\ UNCHANGED <<transfer_active, cancel_transfer, transfer_btn, cancel_btn>>
                /\ dialog' \in {"warn_no_files", "warn_no_destination", "error_no_path"}]_vars

\* C7 witness: start_transfer has rejected a request whose destination
\* does not exist, with sources selected
C7_Witness ==
    /\ dialog = "error_no_path"
    /\ source_files # <<>>
    /\ started = 0
    /\ transfer_btn = "normal" /\ cancel_btn = "disabled"
    /\ ~transfer_active

\* C8: at most one transfer_files thread exists that has not finished.
C8_OneWorkerAtATime == Cardinality({t \in Threads : Running(t)}) <= 1

\* C9: the destination path, the collision handling and the verification
\* of every file of a run follow the source list and the three options as
\* they were when start_transfer was called.
C9_ControlsFixedForRun ==
    [][\A t \in Threads :
          LET w == worker[t] IN
          /\ (w.pc = "loop" /\ worker'[t].pc = "copy") =>
                worker'[t].dest_file =
                    dest_file_for(w.all_files[w.idx + 1], w.snap.preserve,
                                  w.snap.sources, destination_path, fs)
          /\ OpensDestination(t) =>
                worker'[t].dst =
                    Lookup(write_path(w.dest_file, w.snap.overwrite, TreeAtOpen),
                           TreeAtOpen).path
          /\ (w.pc = "verify" /\ worker'[t] # w) =>
                ((worker'[t].exc = "ChecksumFailed")
                    <=> (w.snap.verify
                         /\ calculate_md5(w.all_files[w.idx + 1], fs)
                                # calculate_md5(w.dst, fs)))]_vars

\* the regular files an entry of source_files stands for: itself, the
\* regular files of its whole subtree, or nothing
TasksOf(entry, fsv) ==
    IF entry \in DOMAIN fsv.files THEN {entry}
    ELSE IF entry \in fsv.dirs
    THEN {p \in DOMAIN fsv.files : StartsWith(p, entry \o <<Sep>>)}
    ELSE {}

\* C10: enumerating one entry of source_files appends exactly one task per
\* regular file the entry stands for (one for a file, one per regular file
\* of the subtree for a directory, none for a path that does not exist) and
\* goes on to the next entry.
C10_EnumerationPerEntry ==
    [][\A t \in Threads :
          (worker[t].pc = "enum" /\ worker'[t].it = worker[t].it + 1) =>
              LET w     == worker[t]
                  entry == source_files[w.it + 1]
                  n     == Len(w.all_files)
                  new   == SubSeq(worker'[t].all_files, n + 1, Len(worker'[t].all_files))
              IN  /\ SubSeq(worker'[t].all_files, 1, n) = w.all_files
                  /\ {new[k] : k \in 1..Len(new)} = TasksOf(entry, fs)
                  /\ Len(new) = Cardinality(TasksOf(entry, fs))
                  /\ worker'[t].pc = "enum"]_vars

\* C10 witness: a run whose source list holds the missing /q and the
\* directory /d2 has enumerated and copied the one file under /d2
C10_Witness ==
    \E t \in Threads :
        /\ worker[t].pc = "epilogue"
        /\ worker[t].snap.sources = <<pQ, pD2>>
        /\ source_files = <<pQ, pD2>>
        /\ worker[t].all_files = <<pD2x>>
        /\ worker[t].transferred_files = 1
        /\ \E p \in DOMAIN fs.files : p \notin DOMAIN InitFS.files /\ fs.files[p] = <<1, 2, 3>>


\* thread t leaves copy_file_with_progress at line 407, having read the
\* flag as set at the head of a round of the chunk loop
AbortsCopy(t) ==
    /\ worker[t].pc = "chunk"
    /\ worker'[t].pc = "loop"
    /\ worker'[t].observed

\* C11: a run writes at most one chunk while the flag is set (the chunk
\* whose round had read the flag before cancel_transfer_action set it);
\* the step that aborts a copy on the flag leaves the filesystem as it is,
\* with the destination holding the bytes copied so far, and no step
\* removes a file.
C11_CancelLatencyOneChunk ==
    [][/\ \A t \in Threads :
            /\ worker'[t].late <= 1
            /\ AbortsCopy(t)
                 => /\ fs' = fs
                    /\ worker[t].dst \in DOMAIN fs'.files
                    /\ Len(fs'.files[worker[t].dst]) = worker[t].copied
       /\ DOMAIN fs.files \subseteq DOMAIN fs'.files]_vars

\* C11 witness: the flag was set between the read of line 406 and the
\* write of line 413; the worker wrote that chunk, saw the flag in the next
\* round and is back in the per-file loop, and a part of the file it was
\* copying is on the destination
C11_Witness ==
    \E t \in Threads :
        /\ worker[t].late = 1
        /\ worker[t].observed
        /\ worker[t].pc = "loop"
        /\ worker[t].idx > 0
        /\ \E p \in DOMAIN fs.files :
             /\ p \notin DOMAIN InitFS.files
             /\ fs.files[p] # <<>>
             /\ Len(fs.files[p]) < GetSize(worker[t].all_files[worker[t].idx], fs)


\* the application at rest: no run marked active, Start enabled, Cancel
\* disabled
Idle ==
    /\ ~transfer_active
    /\ transfer_btn = "normal"
    /\ cancel_btn = "disabled"

\* C12: under FairSpec every thread that start_transfer has started
\* eventually has ended with the application at rest, whichever way it
\* leaves the try block.
C12_RunEndsIdle ==
    \A t \in Threads :
        (worker[t].pc = "enum") ~> (worker[t].pc = "exited" /\ Idle)

\* C12 witness: a run that left the try block through the handler of line
\* 546 has ended and the application is at rest
C12_Witness ==
    /\ worker[1].pc = "exited"
    /\ status_label = "error"
    /\ Idle


\* C13: the first run of a behaviour, not cancelled, with the controls left
\* alone and no fault of the device (extras = 0), leaves the try block only
\* through the code after the loop, with every enumerated file counted; if
\* it reaches the handler of line 546, then with an error of the
\* filesystem or of the verification.
C13_UndisturbedRunCompletes ==
    \A t \in Threads :
        (extras = 0 /\ ~cancel_transfer)
            => /\ worker[t].pc = "epilogue"
                    => worker[t].transferred_files = worker[t].total_files
               /\ worker[t].pc = "except"
                    => worker[t].exc \in {"OSError", "ChunkIOError", "ChecksumFailed"}


\* C14: whenever copy_file_with_progress returns False on the flag, the
\* destination it was writing holds fewer bytes than the source.  Stated
\* for sources that are not empty; an empty source cannot have a shorter
\* copy.
C14_AbortedCopyIsPartial ==
    [][\A t \in Threads :
          LET src == worker[t].all_files[worker[t].idx + 1] IN
          (AbortsCopy(t) /\ GetSize(src, fs) > 0)
              => Len(fs.files[worker[t].dst]) < GetSize(src, fs)]_vars

=============================================================================
